---- MODULE Spec2Model ----
(***************************************************************************)
(* A model of the batch resolution-and-transfer pipeline of tw-dl:         *)
(*   - split_date_range   (src/src/twitch_utils.rs)  Range Partitioner     *)
(*   - get_clips_chunked / get_clips (twitch_utils.rs) Listing Fetcher     *)
(*   - download_clips / download_clip / download_file (src/src/lib.rs)     *)
(* Each component has its own specification (SpecSplit, SpecList, SpecDl)  *)
(* over one set of variables; the variables of the components a            *)
(* specification does not run stay at their initial values.                *)
(***************************************************************************)
EXTENDS Integers, Sequences, FiniteSets, TLC

(***************************************************************************)
(* Bounds of the model.                                                    *)
(***************************************************************************)
\* instants handed to split_date_range are 0..MaxT (in ticks)
MaxT == 4
\* get_clips_chunked is run on at most MaxParts sub-ranges
MaxParts == 3
\* the remote answers at most MaxMorePages pages with a continuation cursor
MaxMorePages == 2
\* a listing page holds at most MaxRecs records
MaxRecs == 1
\* download_clips is run on at most MaxClips clips
MaxClips == 5
\* with a chunk_size of at most MaxChunkSize
MaxChunkSize == 2
\* at most MaxFailures tasks of a run fail
MaxFailures == 1
\* a response body is BodyLen chunks long in a run of many clips
BodyLen == 1
\* a metadata response lists at most MaxCands renditions
MaxCands == 3
\* a signature or a token value is at most MaxTextLen bytes long
MaxTextLen == 2
\* ticks per second: chrono keeps (secs, nanos); the model keeps (secs, frac)
TicksPerSec == 2
\* DateTime<Utc> can represent -DtMargin .. MaxT + DtMargin; beyond is overflow
DtMargin == 2

Min(a, b) == IF a <= b THEN a ELSE b

\* Rust's integer / and % truncate toward zero
TruncDiv(a, b) ==
    IF (a >= 0) = (b > 0) THEN (IF a >= 0 THEN a ELSE -a) \div (IF b > 0 THEN b ELSE -b)
    ELSE -((IF a >= 0 THEN a ELSE -a) \div (IF b > 0 THEN b ELSE -b))

TruncRem(a, b) == a - b * TruncDiv(a, b)

VARIABLES
    \* ---- split_date_range ----
    sd_start,      \* argument start
    sd_end,        \* argument end
    sd_kind,       \* DateChunkingType variant: "ByDuration" | "ByNumber"
    sd_arg,        \* the variant's payload (a Duration in ticks, or a u16)
    sd_pc,         \* "entry" | "loop" | "returned" | "panicked"
    sd_step,       \* local step
    sd_current,    \* local current
    sd_chunks,     \* local chunks: sequence of <<Timestamp, Timestamp>>
    \* ---- get_clips_chunked and its get_clips futures ----
    gc_pc,         \* "entry" | "joining" | "returned"
    gc_clips,      \* the merged Vec<Clip> get_clips_chunked returns
    gc_errors,     \* number of error! records written by get_clips_chunked
    f_pc,          \* per sub-range future: "idle" | "awaiting" | "returned"
    f_req,         \* per future: the request in flight, <<>> when none
    f_cursor,      \* per future: local cursor, <<>> = None, <<c>> = Some(c)
    f_clips,       \* per future: local accumulator clips
    f_result,      \* per future: [tag |-> "Pending" | "Ok" | "Err", clips]
    f_calls,       \* per sub-range: number of get_clips calls made for it
    f_sent,        \* per future: number of page requests sent
    served,        \* per future: the pages the remote answered, in order
    more_pages,    \* number of pages answered with a continuation cursor
    \* ---- download_clips and its download_clip futures ----
    dl_nclips,     \* clips.len()
    dl_chunk_size, \* argument chunk_size
    dl_silent,     \* argument silent
    dl_body,       \* the number of chunks of each response body of the run
    dl_pc,         \* "entry" | "loop" | "joining" | "returned" | "panicked"
    dl_lo,         \* index of the first clip of the current chunk
    dl_bar,        \* the progress bar: <<>> = None, <<pos>> = Some(bar at pos)
    dl_errors,     \* number of error! records written by the tasks
    t_pc,          \* per task: "idle", an in-flight stage, "ok" or a failure
    t_attempts,    \* per task: number of times download_clip was started
    t_recv,        \* per task: number of body chunks the stream has yielded
    t_file,        \* per destination <id>.mp4: <<>> = absent, <<content>>
    dl_ids,        \* per task: the id of its clip
    t_meta,        \* per task: <<>> before its lookup answers, then <<name>>,
                   \* the name of the answer in SampleLookups
    \* ---- one clip's resolution: get_video_source_files and its caller ----
    rs_caller,     \* "batch" (download_clip) | "clip_link" | "clip_download"
    rs_lookup,     \* the metadata lookup's answer: <<>> failed, <<response>>
    rs_pc,         \* "idle" | "lookup" | "select" | "deliver" | an end state
    rs_files,      \* the Vec<SourceFile> of get_video_source_files
    rs_best,       \* the selected file: <<>> = none yet, <<file>>
    rs_out,        \* the URLs printed on stdout
    rs_get,        \* the URLs handed to download_file
    rs_errors,     \* number of error! records written
    \* ---- the channel command, handle_channel_subcommand ----
    ch_link,       \* args.link
    ch_chunk_arg,  \* args.chunk_size: <<>> = None, <<c>> = Some(c)
    ch_pc,         \* "idle" | "start" | "listed" | "resolving" | "done" |
                   \* "downloading" | "exited"
    ch_first,      \* the page sizes sent to the listing endpoint, in order
    ch_nclips,     \* clips.len() of the listing
    ch_results,    \* per clip: <<>> lookup pending, <<lookup>> its answer
    ch_out,        \* the lines printed on stdout
    ch_errors      \* number of error! records written by the command

sdVars == <<sd_start, sd_end, sd_kind, sd_arg, sd_pc, sd_step, sd_current, sd_chunks>>

gcVars == <<gc_pc, gc_clips, gc_errors, f_pc, f_req, f_cursor, f_clips, f_result,
            f_calls, f_sent, served, more_pages>>

dlVars == <<dl_nclips, dl_chunk_size, dl_silent, dl_body, dl_pc, dl_lo, dl_bar, dl_errors,
            t_pc, t_attempts, t_recv, t_file, dl_ids, t_meta>>

rsVars == <<rs_caller, rs_lookup, rs_pc, rs_files, rs_best, rs_out, rs_get, rs_errors>>

chVars == <<ch_link, ch_chunk_arg, ch_pc, ch_first, ch_nclips, ch_results, ch_out, ch_errors>>

vars == <<sdVars, gcVars, dlVars, rsVars, chVars>>

(***************************************************************************)
(* Range Partitioner: split_date_range, twitch_utils.rs:10-42              *)
(***************************************************************************)
DtMin == 0 - DtMargin
DtMax == MaxT + DtMargin
\* a chunk count larger than the longest range, and 0
MaxNum == MaxT + 1
\* a duration long enough to overflow DateTime from any start, and -1, 0
MaxDuration == MaxT + DtMargin + 1
\* the loop of a terminating call pushes at most MaxT chunks; a call that
\* does not terminate is cut here
LoopCap == MaxT + 2

\* Timestamp: the RFC 3339 text of an instant, kept as its seconds field and
\* its fraction-of-second field
convert_dt(t) == [secs |-> t \div TicksPerSec, frac |-> t % TicksPerSec]

convert_ts(ts) == ts.secs * TicksPerSec + ts.frac

\* chrono TimeDelta / i32 on the (secs, nanos) representation
DurationDiv(d, n) ==
    LET secs  == d \div TicksPerSec
        nanos == d % TicksPerSec
        qs    == TruncDiv(secs, n)
        carry == TruncRem(secs, n)
        extra == TruncDiv(carry * TicksPerSec, n)
        qn    == TruncDiv(nanos, n) + extra
    IN  qs * TicksPerSec + qn

\* line 36 without the clamp
NextChunkEndNoClamp(current, step, end) == current + step

\* line 36: (current + step).min(end)
NextChunkEnd(current, step, end) == Min(current + step, end)

\* DateTime + Duration panics when the sum is not representable
AddOverflows(current, step) == current + step < DtMin \/ current + step > DtMax

SplitInit ==
    /\ sd_start \in 0..MaxT
    /\ sd_end \in 0..MaxT
    /\ \/ sd_kind = "ByDuration" /\ sd_arg \in (0 - 1)..MaxDuration
       \/ sd_kind = "ByNumber" /\ sd_arg \in 0..MaxNum
    /\ sd_pc = "entry"
    /\ sd_step = 0
    /\ sd_current = 0
    /\ sd_chunks = <<>>

\* lines 27-34: the step; Duration / 0 panics
SplitEnter ==
    /\ sd_pc = "entry"
    /\ IF sd_kind = "ByNumber" /\ sd_arg = 0
       THEN /\ sd_pc' = "panicked"
            /\ UNCHANGED <<sd_step, sd_current>>
       ELSE /\ sd_step' = IF sd_kind = "ByDuration" THEN sd_arg
                          ELSE DurationDiv(sd_end - sd_start, sd_arg)
            /\ sd_current' = sd_start
            /\ sd_pc' = "loop"
    /\ UNCHANGED <<sd_start, sd_end, sd_kind, sd_arg, sd_chunks>>

\* lines 35-39: one iteration of the while loop
SplitIter ==
    /\ sd_pc = "loop"
    /\ sd_current < sd_end
    /\ Len(sd_chunks) < LoopCap
    /\ IF AddOverflows(sd_current, sd_step)
       THEN /\ sd_pc' = "panicked"
            /\ UNCHANGED <<sd_current, sd_chunks>>
       ELSE LET next == NextChunkEnd(sd_current, sd_step, sd_end)
            IN  /\ sd_chunks' = Append(sd_chunks, <<convert_dt(sd_current), convert_dt(next)>>)
                /\ sd_current' = next
                /\ sd_pc' = "loop"
    /\ UNCHANGED <<sd_start, sd_end, sd_kind, sd_arg, sd_step>>

\* lines 35, 41: the loop condition fails, chunks is returned
SplitReturn ==
    /\ sd_pc = "loop"
    /\ ~(sd_current < sd_end)
    /\ sd_pc' = "returned"
    /\ UNCHANGED <<sd_start, sd_end, sd_kind, sd_arg, sd_step, sd_current, sd_chunks>>

(***************************************************************************)
(* Listing Fetcher: get_clips_chunked and get_clips,                       *)
(* twitch_utils.rs:55-112.  date_ranges is sd_chunks, the value            *)
(* split_date_range returned (line 61).                                    *)
(***************************************************************************)
Parts == 1..MaxParts

NParts == Len(sd_chunks)

\* the remote listing: page k of sub-range p holding c records
PageData(p, k, c) == [r \in 1..c |-> <<p, k, r>>]

\* the records of a sequence of pages, in page order
RECURSIVE Flatten(_)
Flatten(pages) ==
    IF pages = <<>> THEN <<>>
    ELSE Flatten(SubSeq(pages, 1, Len(pages) - 1)) \o pages[Len(pages)].data

\* lines 91-96: the request built once from the sub-range
BuildRequest(p) ==
    [started_at |-> sd_chunks[p][1], ended_at |-> sd_chunks[p][2], after |-> <<>>]

\* line 100 left out: the request keeps the cursor it was built with
WithAfterKept(req, cursor) == req

\* line 100: request.after = cursor.clone()
WithAfter(req, cursor) == [req EXCEPT !.after = cursor]

\* line 103 with the accumulator overwritten instead of extended
ExtendReplace(acc, data) == data

\* line 103: clips.extend(response.data)
Extend(acc, data) == acc \o data

\* line 102 with the records fetched so far returned on a failure
ErrResultPartial(acc) == [tag |-> "Ok", clips |-> acc]

\* line 102: `?` returns Err(e); the accumulator is dropped
ErrResult(acc) == [tag |-> "Err", clips |-> <<>>]

\* line 111: Ok(clips)
OkResult(acc) == [tag |-> "Ok", clips |-> acc]

\* lines 70-77 giving up at the first failed sub-range
RECURSIVE MergeUntilErr(_, _)
MergeUntilErr(results, n) ==
    IF n = 0 THEN <<>>
    ELSE IF \E q \in 1..n : results[q].tag # "Ok" THEN MergeUntilErr(results, n - 1)
    ELSE MergeUntilErr(results, n - 1) \o results[n].clips

\* lines 66-79: the for loop over the first n results, in order
RECURSIVE MergeResults(_, _)
MergeResults(results, n) ==
    IF n = 0 THEN <<>>
    ELSE IF results[n].tag = "Ok" THEN MergeResults(results, n - 1) \o results[n].clips
    ELSE MergeResults(results, n - 1)

Pending == [tag |-> "Pending", clips |-> <<>>]

GcIdle ==
    /\ gc_pc = "entry"
    /\ gc_clips = <<>>
    /\ gc_errors = 0
    /\ f_pc = [p \in Parts |-> "idle"]
    /\ f_req = [p \in Parts |-> <<>>]
    /\ f_cursor = [p \in Parts |-> <<>>]
    /\ f_clips = [p \in Parts |-> <<>>]
    /\ f_result = [p \in Parts |-> Pending]
    /\ f_calls = [p \in Parts |-> 0]
    /\ f_sent = [p \in Parts |-> 0]
    /\ served = [p \in Parts |-> <<>>]
    /\ more_pages = 0

\* lines 61-68: the futures are built lazily and handed to join_all
GcStart ==
    /\ gc_pc = "entry"
    /\ sd_pc = "returned"
    /\ gc_pc' = "joining"
    /\ UNCHANGED <<gc_clips, gc_errors, f_pc, f_req, f_cursor, f_clips, f_result,
                   f_calls, f_sent, served, more_pages>>

\* lines 82-102: join_all polls future p for the first time (in order): the
\* locals are set up and the first request is sent
FetchStart(p) ==
    /\ gc_pc = "joining"
    /\ p \in 1..NParts
    /\ f_pc[p] = "idle"
    /\ \A q \in 1..(p - 1) : f_pc[q] # "idle"
    /\ f_calls' = [f_calls EXCEPT ![p] = @ + 1]
    /\ f_clips' = [f_clips EXCEPT ![p] = <<>>]
    /\ f_cursor' = [f_cursor EXCEPT ![p] = <<>>]
    /\ f_req' = [f_req EXCEPT ![p] = <<WithAfter(BuildRequest(p), <<>>)>>]
    /\ f_sent' = [f_sent EXCEPT ![p] = @ + 1]
    /\ f_pc' = [f_pc EXCEPT ![p] = "awaiting"]
    /\ UNCHANGED <<gc_pc, gc_clips, gc_errors, f_result, served, more_pages>>

\* lines 102-111: the page asked for arrives; the loop either sends the next
\* request with the page's cursor or breaks and returns Ok(clips)
FetchPage(p) ==
    /\ gc_pc = "joining"
    /\ p \in 1..NParts
    /\ f_pc[p] = "awaiting"
    /\ \E c \in 0..MaxRecs, more \in BOOLEAN :
        /\ more => more_pages < MaxMorePages
        /\ LET req        == f_req[p][1]
               k          == IF req.after = <<>> THEN 1 ELSE req.after[1][2]
               data       == PageData(p, k, c)
               pagination == IF more THEN << <<p, k + 1>> >> ELSE <<>>
               clips      == Extend(f_clips[p], data)
           IN  /\ served' = [served EXCEPT ![p] = Append(@, [data |-> data, next |-> pagination])]
               /\ more_pages' = IF more THEN more_pages + 1 ELSE more_pages
               /\ IF pagination # <<>>
                  THEN /\ f_cursor' = [f_cursor EXCEPT ![p] = pagination]
                       /\ f_req' = [f_req EXCEPT ![p] = <<WithAfter(req, pagination)>>]
                       /\ f_sent' = [f_sent EXCEPT ![p] = @ + 1]
                       /\ f_clips' = [f_clips EXCEPT ![p] = clips]
                       /\ UNCHANGED <<f_pc, f_result>>
                  ELSE /\ f_result' = [f_result EXCEPT ![p] = OkResult(clips)]
                       /\ f_pc' = [f_pc EXCEPT ![p] = "returned"]
                       /\ f_req' = [f_req EXCEPT ![p] = <<>>]
                       /\ f_clips' = [f_clips EXCEPT ![p] = <<>>]
                       /\ UNCHANGED <<f_cursor, f_sent>>
    /\ UNCHANGED <<gc_pc, gc_clips, gc_errors, f_calls>>

\* line 102: the request fails (transport or decode) and `?` returns the error
FetchFail(p) ==
    /\ gc_pc = "joining"
    /\ p \in 1..NParts
    /\ f_pc[p] = "awaiting"
    /\ f_result' = [f_result EXCEPT ![p] = ErrResult(f_clips[p])]
    /\ f_pc' = [f_pc EXCEPT ![p] = "returned"]
    /\ f_req' = [f_req EXCEPT ![p] = <<>>]
    /\ f_clips' = [f_clips EXCEPT ![p] = <<>>]
    /\ UNCHANGED <<gc_pc, gc_clips, gc_errors, f_cursor, f_calls, f_sent, served, more_pages>>

\* lines 68-79: join_all resolves once every future has returned; the results
\* are merged in sub-range order, each failure is logged
GcMerge ==
    /\ gc_pc = "joining"
    /\ \A p \in 1..NParts : f_pc[p] = "returned"
    /\ gc_clips' = MergeResults(f_result, NParts)
    /\ gc_errors' = Cardinality({p \in 1..NParts : f_result[p].tag = "Err"})
    /\ gc_pc' = "returned"
    /\ UNCHANGED <<f_pc, f_req, f_cursor, f_clips, f_result, f_calls, f_sent, served, more_pages>>

NextList ==
    \/ GcStart /\ UNCHANGED <<sdVars, dlVars, rsVars, chVars>>
    \/ \E p \in Parts : FetchStart(p) /\ UNCHANGED <<sdVars, dlVars, rsVars, chVars>>
    \/ \E p \in Parts : FetchPage(p) /\ UNCHANGED <<sdVars, dlVars, rsVars, chVars>>
    \/ \E p \in Parts : FetchFail(p) /\ UNCHANGED <<sdVars, dlVars, rsVars, chVars>>
    \/ GcMerge /\ UNCHANGED <<sdVars, dlVars, rsVars, chVars>>

(***************************************************************************)
(* Quality Resolver: get_video_source_files, format_source_urls and the    *)
(* selection of the best rendition by its callers, lib.rs:16-57, 88-94,    *)
(* 148-172 and main.rs:168-199.  Text is a sequence of one-byte strings.   *)
(***************************************************************************)
Digits == {"0", "1", "2", "3", "4", "5", "6", "7", "8", "9"}

DigitVal(c) ==
    CASE c = "0" -> 0 [] c = "1" -> 1 [] c = "2" -> 2 [] c = "3" -> 3 [] c = "4" -> 4
      [] c = "5" -> 5 [] c = "6" -> 6 [] c = "7" -> 7 [] c = "8" -> 8 [] c = "9" -> 9

\* the decimal value of a sequence of digits
RECURSIVE DecimalValue(_)
DecimalValue(label) ==
    IF label = <<>> THEN 0
    ELSE 10 * DecimalValue(SubSeq(label, 1, Len(label) - 1)) + DigitVal(label[Len(label)])

\* line 49 reading a label up to its first byte that is not a digit
ParseU32Lenient(label) ==
    LET n == IF \E k \in 1..Len(label) : label[k] \notin Digits
             THEN (CHOOSE k \in 1..Len(label) :
                       /\ label[k] \notin Digits
                       /\ \A j \in 1..(k - 1) : label[j] \in Digits) - 1
             ELSE Len(label)
    IN  <<DecimalValue(SubSeq(label, 1, n))>>

\* line 49: quality.quality.parse::<u32>(); <<>> = Err, <<n>> = Ok(n).  The
\* labels of the model are short, so none exceeds the range of u32
ParseU32(label) ==
    IF label = <<>> \/ \E k \in 1..Len(label) : label[k] \notin Digits THEN <<>>
    ELSE <<DecimalValue(label)>>

\* line 50: frame_rate.round() as u32, the frame rate given in hundredths
RoundU32(fr) == IF fr < 0 THEN 0 ELSE (fr + 50) \div 100

\* the ASCII alphanumerics among the bytes of the model
Alnum == Digits \cup {"a", "A", "B", "C", "D", "E", "F"}

\* the two hexadecimal digits of a byte that is not alphanumeric
HexOf(b) ==
    CASE b = "=" -> <<"3", "D">>
      [] b = "&" -> <<"2", "6">>
      [] b = " " -> <<"2", "0">>
      [] b = "#" -> <<"2", "3">>
      [] b = "%" -> <<"2", "5">>

\* line 44 with an encode set that leaves '=' alone
RECURSIVE percent_encode_query(_)
percent_encode_query(bytes) ==
    IF bytes = <<>> THEN <<>>
    ELSE percent_encode_query(SubSeq(bytes, 1, Len(bytes) - 1))
         \o (IF bytes[Len(bytes)] \in Alnum \cup {"="} THEN <<bytes[Len(bytes)]>>
             ELSE <<"%">> \o HexOf(bytes[Len(bytes)]))

\* line 44: percent_encode(token.as_bytes(), NON_ALPHANUMERIC)
RECURSIVE percent_encode(_)
percent_encode(bytes) ==
    IF bytes = <<>> THEN <<>>
    ELSE percent_encode(SubSeq(bytes, 1, Len(bytes) - 1))
         \o (IF bytes[Len(bytes)] \in Alnum THEN <<bytes[Len(bytes)]>>
             ELSE <<"%">> \o HexOf(bytes[Len(bytes)]))

\* the source URLs of the model that are absolute URLs; any other is not
AbsoluteUrls == {"https://h/1", "https://h/2", "https://h/3", "https://h/4", "https://h/5"}

\* line 51: format!("{url}?sig={sig}&token={encoded_token}"); base is the
\* text before the '?', rest the text after it
FormatUrlText(url, sig, encoded_token) ==
    [base |-> url, rest |-> <<"s", "i", "g", "=">> \o sig \o <<"&", "t", "o", "k", "e", "n", "=">> \o encoded_token]

\* Url parsing percent-encodes a space of a query or of a fragment
RECURSIVE EncodeSpaces(_)
EncodeSpaces(bytes) ==
    IF bytes = <<>> THEN <<>>
    ELSE EncodeSpaces(SubSeq(bytes, 1, Len(bytes) - 1))
         \o (IF bytes[Len(bytes)] = " " THEN <<"%", "2", "0">> ELSE <<bytes[Len(bytes)]>>)

\* line 51: Url::from_str; <<>> = Err, <<u>> = Ok(u).  A text that is not an
\* absolute URL is an error; the first '#' ends the query and begins the
\* fragment (fragment <<>> = none, <<f>> = Some(f))
UrlParse(text) ==
    IF text.base \notin AbsoluteUrls THEN <<>>
    ELSE LET rest == text.rest
             hash == IF \E k \in 1..Len(rest) : rest[k] = "#"
                     THEN CHOOSE k \in 1..Len(rest) :
                              rest[k] = "#" /\ \A j \in 1..(k - 1) : rest[j] # "#"
                     ELSE 0
         IN  <<[base     |-> text.base,
                query    |-> EncodeSpaces(IF hash = 0 THEN rest ELSE SubSeq(rest, 1, hash - 1)),
                fragment |-> IF hash = 0 THEN <<>>
                             ELSE <<EncodeSpaces(SubSeq(rest, hash + 1, Len(rest)))>>]>>

\* Url::as_str, the text after the base and its '?'
AsStr(url) ==
    [base |-> url.base,
     rest |-> url.query \o (IF url.fragment = <<>> THEN <<>> ELSE <<"#">> \o url.fragment[1])]

ErrFiles == [tag |-> "Err", files |-> <<>>]

\* lines 45-56: the files of the first k renditions, or the first error
RECURSIVE FormatLoop(_, _)
FormatLoop(response, k) ==
    IF k = 0 THEN [tag |-> "Ok", files |-> <<>>]
    ELSE LET before  == FormatLoop(response, k - 1)
             quality == response.video_qualities[k]
             q       == ParseU32(quality.quality)
             u       == UrlParse(FormatUrlText(quality.source_url, response.signature,
                                               percent_encode(response.value)))
         IN  IF before.tag = "Err" \/ q = <<>> \/ u = <<>> THEN ErrFiles
             ELSE [tag   |-> "Ok",
                   files |-> Append(before.files,
                                    [quality    |-> q[1],
                                     frame_rate |-> RoundU32(quality.frame_rate),
                                     url        |-> u[1]])]

\* lines 41-57
format_source_urls(response) == FormatLoop(response, Len(response.video_qualities))

\* lines 88-94: lookup is <<>> when the request or the decoding of its body
\* failed, <<response>> otherwise
get_video_source_files(lookup) ==
    IF lookup = <<>> THEN ErrFiles ELSE format_source_urls(lookup[1])

\* lines 29-33 comparing the other way round
CmpReversed(a, b) ==
    IF a.quality > b.quality THEN "Less"
    ELSE IF a.quality < b.quality THEN "Greater" ELSE "Equal"

\* lines 29-33 with the frame rate as a second sort key
CmpFrameRateTieBreak(a, b) ==
    IF a.quality < b.quality THEN "Less"
    ELSE IF a.quality > b.quality THEN "Greater"
    ELSE IF a.frame_rate < b.frame_rate THEN "Less"
    ELSE IF a.frame_rate > b.frame_rate THEN "Greater" ELSE "Equal"

\* lines 29-33: Ord for SourceFile compares the quality alone
Cmp(a, b) ==
    IF a.quality < b.quality THEN "Less"
    ELSE IF a.quality > b.quality THEN "Greater" ELSE "Equal"

\* Iterator::max over the first k files: the index of the last greatest one
RECURSIVE MaxIndex(_, _)
MaxIndex(files, k) ==
    IF k <= 1 THEN k
    ELSE LET m == MaxIndex(files, k - 1)
         IN  IF Cmp(files[m], files[k]) = "Greater" THEN m ELSE k

\* lib.rs:156, main.rs:173, 235: files.iter().max(); <<>> = None
Best(files) == IF files = <<>> THEN <<>> ELSE <<files[MaxIndex(files, Len(files))]>>

\* the labels, frame rates (in hundredths) and bytes the model draws from
Labels == {<<"1", "6", "0">>, <<"4", "8", "0">>, <<"7", "2", "0">>,
           <<"1", "0", "8", "0">>, <<"7", "2", "p">>}

FrameRates == {2997, 6000}

InputBytes == {"a", "=", "&", " ", "#"}

RECURSIVE TextsUpTo(_)
TextsUpTo(n) ==
    IF n = 0 THEN {<<>>}
    ELSE LET shorter == TextsUpTo(n - 1)
         IN  shorter \cup {Append(t, b) : t \in shorter, b \in InputBytes}

UrlAt(k) ==
    CASE k = 1 -> "https://h/1" [] k = 2 -> "https://h/2" [] k = 3 -> "https://h/3"
      [] k = 4 -> "https://h/4" [] OTHER -> "https://h/5"

Response(sig, value, qualities) ==
    [signature |-> sig, value |-> value, video_qualities |-> qualities]

Rendition(label, fr, url) == [quality |-> label, frame_rate |-> fr, source_url |-> url]

\* every list of up to n renditions, the k-th with the k-th source URL
RECURSIVE RenditionLists(_)
RenditionLists(n) ==
    IF n = 0 THEN {<<>>}
    ELSE LET shorter == RenditionLists(n - 1)
         IN  shorter \cup {Append(l, Rendition(lab, fr, UrlAt(Len(l) + 1))) :
                              l \in {x \in shorter : Len(x) = n - 1}, lab \in Labels, fr \in FrameRates}

RsIdle ==
    /\ rs_caller = "batch"
    /\ rs_lookup = <<>>
    /\ rs_pc = "idle"
    /\ rs_files = <<>>
    /\ rs_best = <<>>
    /\ rs_out = <<>>
    /\ rs_get = <<>>
    /\ rs_errors = 0

\* the signatures and token values tried: any signature with a fixed value,
\* and any value with a fixed signature
SigValues ==
    {<<sig, <<"a", "=">> >> : sig \in TextsUpTo(MaxTextLen)}
        \cup {<< <<"a">>, value>> : value \in TextsUpTo(MaxTextLen)}

\* one clip's lookup: a failed request, any rendition list under a fixed
\* token, or any signature or token over a few rendition lists
RsInit ==
    /\ rs_caller \in {"batch", "clip_link", "clip_download"}
    /\ \/ rs_lookup = <<>>
       \/ \E l \in RenditionLists(MaxCands) :
              rs_lookup = <<Response(<<"a">>, <<"a", "=">>, l)>>
       \/ \E sv \in SigValues :
              \E l \in {<<Rendition(<<"7", "2", "0">>, 6000, UrlAt(1))>>,
                        <<Rendition(<<"4", "8", "0">>, 2997, UrlAt(1)),
                          Rendition(<<"7", "2", "0">>, 6000, UrlAt(2))>>,
                        <<Rendition(<<"4", "8", "0">>, 2997, UrlAt(1)),
                          Rendition(<<"7", "2", "0">>, 6000, "/clip.mp4")>>} :
                  rs_lookup = <<Response(sv[1], sv[2], l)>>
    /\ rs_pc = "lookup"
    /\ rs_files = <<>>
    /\ rs_best = <<>>
    /\ rs_out = <<>>
    /\ rs_get = <<>>
    /\ rs_errors = 0

\* lib.rs:149-155, main.rs:168-171: get_video_source_files answers; on an
\* error download_clip logs and returns, the clip command exits the process
RsLookup ==
    /\ rs_pc = "lookup"
    /\ LET r == get_video_source_files(rs_lookup)
       IN  IF r.tag = "Err"
           THEN /\ rs_pc' = IF rs_caller = "batch" THEN "failed" ELSE "exited"
                /\ rs_errors' = rs_errors + 1
                /\ UNCHANGED rs_files
           ELSE /\ rs_pc' = "select"
                /\ rs_files' = r.files
                /\ UNCHANGED rs_errors
    /\ UNCHANGED <<rs_caller, rs_lookup, rs_best, rs_out, rs_get>>

\* lib.rs:156-162, main.rs:173-176: the best file, or none: download_clip logs
\* and returns, the clip command exits the process
RsSelect ==
    /\ rs_pc = "select"
    /\ LET best == Best(rs_files)
       IN  IF best = <<>>
           THEN /\ rs_pc' = IF rs_caller = "batch" THEN "failed" ELSE "exited"
                /\ rs_errors' = rs_errors + 1
                /\ UNCHANGED rs_best
           ELSE /\ rs_pc' = "deliver"
                /\ rs_best' = best
                /\ UNCHANGED rs_errors
    /\ UNCHANGED <<rs_caller, rs_lookup, rs_files, rs_out, rs_get>>

\* lib.rs:163-172, main.rs:178-199: the URL of the best file is printed (link)
\* or handed to download_file
RsDeliver ==
    /\ rs_pc = "deliver"
    /\ IF rs_caller = "clip_link"
       THEN /\ rs_out' = Append(rs_out, AsStr(rs_best[1].url))
            /\ rs_pc' = "printed"
            /\ UNCHANGED rs_get
       ELSE /\ rs_get' = Append(rs_get, rs_best[1].url)
            /\ rs_pc' = "downloading"
            /\ UNCHANGED rs_out
    /\ UNCHANGED <<rs_caller, rs_lookup, rs_files, rs_best, rs_errors>>

(***************************************************************************)
(* Download Orchestrator: download_clips, download_clip, download_file,    *)
(* lib.rs:96-173.  Clip i of the list is task i.                           *)
(***************************************************************************)
Clips == 1..MaxClips

FailedStates == {"ResolveFailed", "NoSourceFound", "SendFailed", "CreateFailed",
                 "WriteFailed", "StreamFailed"}

\* the failures of download_file
TransferFailedStates == {"SendFailed", "CreateFailed", "WriteFailed", "StreamFailed"}

InFlightStates == {"resolving", "sending", "creating", "streaming"}

Settled(i) == t_pc[i] \in FailedStates \cup {"ok"}

InFlight(i) == t_pc[i] \in InFlightStates

Started(i) == t_pc[i] # "idle"

NumFailed == Cardinality({i \in Clips : t_pc[i] \in FailedStates})

\* the remote and the file system fail at most MaxFailures tasks of a run
MayFail == NumFailed < MaxFailures

\* line 101 with chunks one element too long
CurChunkWide(lo, size, n) == lo..Min(lo + size, n)

\* line 101: the chunk of clips.chunks(chunk_size) that begins at index lo
CurChunk(lo, size, n) == lo..Min(lo + size - 1, n)

\* line 103 resolving as soon as one future of the chunk has finished
BatchAnySettled(chunk) == \E i \in chunk : Settled(i)

\* line 103 resolving only when every future of the chunk has succeeded
BatchAllOk(chunk) == \A i \in chunk : t_pc[i] = "ok"

\* line 103: join_all resolves when every future of the chunk has finished
BatchSettled(chunk) == \A i \in chunk : Settled(i)

\* line 105 counting only the tasks that succeeded
BarIncSuccesses(bar, chunk) ==
    IF bar = <<>> THEN bar ELSE <<bar[1] + Cardinality({i \in chunk : t_pc[i] = "ok"})>>

\* lines 104-106: bar.inc(chunk.len()) when there is a bar
BarInc(bar, chunk) == IF bar = <<>> THEN bar ELSE <<bar[1] + Cardinality(chunk)>>

DlIdle ==
    /\ dl_nclips = 0
    /\ dl_chunk_size = 0
    /\ dl_silent = TRUE
    /\ dl_body = BodyLen
    /\ dl_pc = "entry"
    /\ dl_lo = 1
    /\ dl_bar = <<>>
    /\ dl_errors = 0
    /\ t_pc = [i \in Clips |-> "idle"]
    /\ t_attempts = [i \in Clips |-> 0]
    /\ t_recv = [i \in Clips |-> 0]
    /\ t_file = [i \in Clips |-> <<>>]
    /\ dl_ids = [i \in Clips |-> i]
    /\ t_meta = [i \in Clips |-> <<>>]

DlInit ==
    /\ dl_nclips \in 0..MaxClips
    /\ dl_chunk_size \in 0..MaxChunkSize
    /\ dl_silent \in BOOLEAN
    /\ dl_body = BodyLen
    /\ dl_pc = "entry"
    /\ dl_lo = 1
    /\ dl_bar = <<>>
    /\ dl_errors = 0
    /\ t_pc = [i \in Clips |-> "idle"]
    /\ t_attempts = [i \in Clips |-> 0]
    /\ t_recv = [i \in Clips |-> 0]
    /\ t_file = [i \in Clips |-> <<>>]
    /\ dl_ids = [i \in Clips |-> i]
    /\ t_meta = [i \in Clips |-> <<>>]

\* lines 97-101: the bar is created, then clips.chunks(chunk_size) is built,
\* which panics when chunk_size is 0
DlEnter ==
    /\ dl_pc = "entry"
    /\ dl_bar' = IF dl_silent THEN <<>> ELSE <<0>>
    /\ dl_pc' = IF dl_chunk_size = 0 THEN "panicked" ELSE "loop"
    /\ UNCHANGED <<dl_nclips, dl_chunk_size, dl_silent, dl_body, dl_lo, dl_errors,
                   t_pc, t_attempts, t_recv, t_file, dl_ids, t_meta>>

\* lines 101-103: the next chunk's futures are built and handed to join_all,
\* or the loop ends and download_clips returns
DlNextChunk ==
    /\ dl_pc = "loop"
    /\ dl_pc' = IF dl_lo > dl_nclips THEN "returned" ELSE "joining"
    /\ UNCHANGED <<dl_nclips, dl_chunk_size, dl_silent, dl_body, dl_lo, dl_bar, dl_errors,
                   t_pc, t_attempts, t_recv, t_file, dl_ids, t_meta>>

\* lines 148-149: join_all polls the chunk's futures in order; task i issues
\* its metadata lookup
TaskStart(i) ==
    /\ dl_pc = "joining"
    /\ i \in CurChunk(dl_lo, dl_chunk_size, dl_nclips)
    /\ t_pc[i] = "idle"
    /\ \A j \in CurChunk(dl_lo, dl_chunk_size, dl_nclips) : j < i => t_pc[j] # "idle"
    /\ t_pc' = [t_pc EXCEPT ![i] = "resolving"]
    /\ t_attempts' = [t_attempts EXCEPT ![i] = @ + 1]
    /\ UNCHANGED <<dl_nclips, dl_chunk_size, dl_silent, dl_body, dl_pc, dl_lo, dl_bar, dl_errors,
                   t_recv, t_file, dl_ids, t_meta>>

\* a task ends in state s; every failure writes one error! record
TaskEnds(i, s) ==
    /\ s \in FailedStates => MayFail
    /\ t_pc' = [t_pc EXCEPT ![i] = s]
    /\ dl_errors' = IF s \in FailedStates THEN dl_errors + 1 ELSE dl_errors

\* the answers a metadata lookup gets in a run, by name: the request fails, or
\* the response lists two good renditions, a rendition whose label is not a
\* number, a rendition whose URL is not absolute, or no rendition at all
SampleLookups ==
    [failed    |-> <<>>,
     good      |-> <<Response(<<"a">>, <<"a", "=">>,
                              <<Rendition(<<"4", "8", "0">>, 2997, UrlAt(1)),
                                Rendition(<<"7", "2", "0">>, 6000, UrlAt(2))>>)>>,
     bad_label |-> <<Response(<<"a">>, <<"a", "=">>,
                              <<Rendition(<<"7", "2", "0">>, 6000, UrlAt(1)),
                                Rendition(<<"7", "2", "p">>, 6000, UrlAt(2))>>)>>,
     bad_url   |-> <<Response(<<"a">>, <<"a", "=">>,
                              <<Rendition(<<"4", "8", "0">>, 2997, "/clip.mp4"),
                                Rendition(<<"7", "2", "0">>, 6000, UrlAt(2))>>)>>,
     empty     |-> <<Response(<<"a">>, <<"a", "=">>, <<>>)>>]

\* lines 149-162: where download_clip goes on each answer: an error of
\* get_video_source_files and an empty list end the task, a best file goes on
Resolved ==
    [name \in DOMAIN SampleLookups |->
        IF get_video_source_files(SampleLookups[name]).tag = "Err" THEN "ResolveFailed"
        ELSE IF Best(get_video_source_files(SampleLookups[name]).files) = <<>> THEN "NoSourceFound"
        ELSE "sending"]

\* lines 149-171: the metadata lookup answers: an error, no rendition, or a
\* best rendition, whose URL is then requested (line 112)
TaskResolve(i) ==
    /\ t_pc[i] = "resolving"
    /\ \E name \in DOMAIN SampleLookups :
           /\ t_meta' = [t_meta EXCEPT ![i] = <<name>>]
           /\ IF Resolved[name] = "sending"
              THEN t_pc' = [t_pc EXCEPT ![i] = "sending"] /\ UNCHANGED dl_errors
              ELSE TaskEnds(i, Resolved[name])
    /\ UNCHANGED <<dl_nclips, dl_chunk_size, dl_silent, dl_body, dl_pc, dl_lo, dl_bar,
                   t_attempts, t_recv, t_file, dl_ids>>

\* lines 112-128 with File::create moved before the GET: the destination is
\* created or truncated whether or not the request is answered
TaskSendCreatesFirst(i) ==
    /\ t_pc[i] = "sending"
    /\ t_file' = [t_file EXCEPT ![dl_ids[i]] = << <<>> >>]
    /\ \/ TaskEnds(i, "SendFailed")
       \/ t_pc' = [t_pc EXCEPT ![i] = "creating"] /\ UNCHANGED dl_errors
    /\ UNCHANGED <<dl_nclips, dl_chunk_size, dl_silent, dl_body, dl_pc, dl_lo, dl_bar,
                   t_attempts, t_recv, dl_ids, t_meta>>

\* lines 112-118: the GET answers or fails to send
TaskSend(i) ==
    /\ t_pc[i] = "sending"
    /\ \/ TaskEnds(i, "SendFailed")
       \/ t_pc' = [t_pc EXCEPT ![i] = "creating"] /\ UNCHANGED dl_errors
    /\ UNCHANGED <<dl_nclips, dl_chunk_size, dl_silent, dl_body, dl_pc, dl_lo, dl_bar,
                   t_attempts, t_recv, t_file, dl_ids, t_meta>>

\* line 133 writing every chunk at the start of the file
WriteAtStart(content, offset, chunk) ==
    IF content = <<>> THEN <<chunk>> ELSE [content EXCEPT ![1] = chunk]

\* line 133: write_all at the handle's offset; bytes never written read as 0
WriteAt(content, offset, chunk) ==
    IF offset < Len(content) THEN [content EXCEPT ![offset + 1] = chunk]
    ELSE content \o [j \in 1..(offset - Len(content)) |-> 0] \o <<chunk>>

\* lines 120-128: File::create creates or truncates the destination
\* directory/<clip.id>.mp4 (line 163), or fails
TaskCreate(i) ==
    /\ t_pc[i] = "creating"
    /\ \/ TaskEnds(i, "CreateFailed") /\ UNCHANGED t_file
       \/ /\ t_pc' = [t_pc EXCEPT ![i] = "streaming"]
          /\ t_file' = [t_file EXCEPT ![dl_ids[i]] = << <<>> >>]
          /\ UNCHANGED dl_errors
    /\ UNCHANGED <<dl_nclips, dl_chunk_size, dl_silent, dl_body, dl_pc, dl_lo, dl_bar,
                   t_attempts, t_recv, dl_ids, t_meta>>

\* lines 130-145: one turn of the stream loop: a chunk arrives and is written,
\* the write fails, the stream fails, or the stream ends
TaskStream(i) ==
    /\ t_pc[i] = "streaming"
    /\ \/ /\ t_recv[i] < dl_body
          /\ t_recv' = [t_recv EXCEPT ![i] = @ + 1]
          /\ t_file' = [t_file EXCEPT ![dl_ids[i]] = <<WriteAt(@[1], t_recv[i], t_recv[i] + 1)>>]
          /\ UNCHANGED <<t_pc, dl_errors>>
       \/ /\ t_recv[i] < dl_body
          /\ TaskEnds(i, "WriteFailed")
          /\ t_recv' = [t_recv EXCEPT ![i] = @ + 1]
          /\ UNCHANGED t_file
       \/ /\ TaskEnds(i, "StreamFailed")
          /\ UNCHANGED <<t_recv, t_file>>
       \/ /\ t_recv[i] = dl_body
          /\ TaskEnds(i, "ok")
          /\ UNCHANGED <<t_recv, t_file>>
    /\ UNCHANGED <<dl_nclips, dl_chunk_size, dl_silent, dl_body, dl_pc, dl_lo, dl_bar, t_attempts,
                   dl_ids, t_meta>>

\* the next step of task i, whichever it is
TaskStep(i) == TaskResolve(i) \/ TaskSend(i) \/ TaskCreate(i) \/ TaskStream(i)

\* lines 103-107: join_all resolves, the bar advances, the loop moves on
DlJoinDone ==
    /\ dl_pc = "joining"
    /\ BatchSettled(CurChunk(dl_lo, dl_chunk_size, dl_nclips))
    /\ dl_bar' = BarInc(dl_bar, CurChunk(dl_lo, dl_chunk_size, dl_nclips))
    /\ dl_lo' = dl_lo + dl_chunk_size
    /\ dl_pc' = "loop"
    /\ UNCHANGED <<dl_nclips, dl_chunk_size, dl_silent, dl_body, dl_errors,
                   t_pc, t_attempts, t_recv, t_file, dl_ids, t_meta>>

NextDl ==
    \/ DlEnter /\ UNCHANGED <<sdVars, gcVars, rsVars, chVars>>
    \/ DlNextChunk /\ UNCHANGED <<sdVars, gcVars, rsVars, chVars>>
    \/ \E i \in Clips : TaskStart(i) /\ UNCHANGED <<sdVars, gcVars, rsVars, chVars>>
    \/ \E i \in Clips : TaskResolve(i) /\ UNCHANGED <<sdVars, gcVars, rsVars, chVars>>
    \/ \E i \in Clips : TaskSend(i) /\ UNCHANGED <<sdVars, gcVars, rsVars, chVars>>
    \/ \E i \in Clips : TaskCreate(i) /\ UNCHANGED <<sdVars, gcVars, rsVars, chVars>>
    \/ \E i \in Clips : TaskStream(i) /\ UNCHANGED <<sdVars, gcVars, rsVars, chVars>>
    \/ DlJoinDone /\ UNCHANGED <<sdVars, gcVars, rsVars, chVars>>

(***************************************************************************)
(* The channel command: handle_channel_subcommand, main.rs:204-253, from   *)
(* the listing on.  Clip i of the listing is task i of download_clips.     *)
(***************************************************************************)
\* main.rs:216: the page size handed to get_clips
PageSize == 100

\* main.rs:248: args.chunk_size.unwrap_or(10)
DefaultChunkSize == 10

\* the listings of the model have at most MaxChunkSize + 1 clips
Listed == 0..(MaxChunkSize + 1)

\* the answers the lookup of clip i gets: the request fails, or the response
\* lists two renditions, the better one at clip i's own URL, or a rendition
\* whose label is not a number, or no rendition at all
ClipLookups(i) ==
    {<<>>,
     <<Response(<<"a">>, <<"a", "=">>, <<Rendition(<<"7", "2", "0">>, 6000, UrlAt(i)),
                                         Rendition(<<"4", "8", "0">>, 2997, UrlAt(MaxClips))>>)>>,
     <<Response(<<"a">>, <<"a", "=">>, <<Rendition(<<"7", "2", "0">>, 6000, UrlAt(i)),
                                         Rendition(<<"7", "2", "p">>, 6000, UrlAt(MaxClips))>>)>>,
     <<Response(<<"a">>, <<"a", "=">>, <<>>)>>}

\* lines 226-242 leaving the loop at the first clip without a URL
RECURSIVE PrintLoopBreak(_, _)
PrintLoopBreak(results, k) ==
    IF k = 0 THEN [out |-> <<>>, errors |-> 0]
    ELSE LET before == PrintLoopBreak(results, k - 1)
             r      == get_video_source_files(results[k][1])
         IN  IF before.errors > 0 THEN before
             ELSE IF r.tag = "Err" \/ Best(r.files) = <<>>
                  THEN [out |-> before.out, errors |-> before.errors + 1]
                  ELSE [out |-> Append(before.out, AsStr(Best(r.files)[1].url)), errors |-> before.errors]

\* lines 226-242: the loop over the first k results: an error and an empty
\* list are logged and skipped, the URL of the best file is printed
RECURSIVE PrintLoop(_, _)
PrintLoop(results, k) ==
    IF k = 0 THEN [out |-> <<>>, errors |-> 0]
    ELSE LET before == PrintLoop(results, k - 1)
             r      == get_video_source_files(results[k][1])
         IN  IF r.tag = "Err" \/ Best(r.files) = <<>>
             THEN [out |-> before.out, errors |-> before.errors + 1]
             ELSE [out |-> Append(before.out, AsStr(Best(r.files)[1].url)), errors |-> before.errors]

ChIdle ==
    /\ ch_link = FALSE
    /\ ch_chunk_arg = <<>>
    /\ ch_pc = "idle"
    /\ ch_first = <<>>
    /\ ch_nclips = 0
    /\ ch_results = [i \in Clips |-> <<>>]
    /\ ch_out = <<>>
    /\ ch_errors = 0

\* the command's arguments; download_clips is not yet called
ChInit ==
    /\ ch_link \in BOOLEAN
    /\ ch_chunk_arg \in {<<>>} \cup {<<c>> : c \in 0..MaxChunkSize}
    /\ ch_pc = "start"
    /\ ch_first = <<>>
    /\ ch_nclips = 0
    /\ ch_results = [i \in Clips |-> <<>>]
    /\ ch_out = <<>>
    /\ ch_errors = 0
    /\ dl_nclips = 0
    /\ dl_chunk_size = 0
    /\ dl_silent \in BOOLEAN
    /\ dl_body = BodyLen
    /\ dl_pc = "uncalled"
    /\ dl_lo = 1
    /\ dl_bar = <<>>
    /\ dl_errors = 0
    /\ t_pc = [i \in Clips |-> "idle"]
    /\ t_attempts = [i \in Clips |-> 0]
    /\ t_recv = [i \in Clips |-> 0]
    /\ t_file = [i \in Clips |-> <<>>]
    /\ dl_ids = [i \in Clips |-> i]
    /\ t_meta = [i \in Clips |-> <<>>]

\* lines 216-220: get_clips is called with Some(PageSize); it returns the
\* clips, or an error, on which the command exits
ChList ==
    /\ ch_pc = "start"
    /\ ch_first' = Append(ch_first, PageSize)
    /\ \/ \E n \in Listed : ch_nclips' = n /\ ch_pc' = "listed"
       \/ ch_pc' = "exited" /\ UNCHANGED ch_nclips
    /\ UNCHANGED <<ch_link, ch_chunk_arg, ch_results, ch_out, ch_errors, dlVars>>

\* lines 221-225: with the link flag the lookups of all clips are joined
ChJoinLookups ==
    /\ ch_pc = "listed"
    /\ ch_link
    /\ ch_pc' = "resolving"
    /\ UNCHANGED <<ch_link, ch_chunk_arg, ch_first, ch_nclips, ch_results, ch_out, ch_errors,
                   dlVars>>

\* line 225: the lookup of clip i answers
ChLookup(i) ==
    /\ ch_pc = "resolving"
    /\ i \in 1..ch_nclips
    /\ ch_results[i] = <<>>
    /\ \E lookup \in ClipLookups(i) : ch_results' = [ch_results EXCEPT ![i] = <<lookup>>]
    /\ UNCHANGED <<ch_link, ch_chunk_arg, ch_pc, ch_first, ch_nclips, ch_out, ch_errors, dlVars>>

\* lines 225-243: join_all resolves and the loop prints the URLs
ChPrint ==
    /\ ch_pc = "resolving"
    /\ \A i \in 1..ch_nclips : ch_results[i] # <<>>
    /\ ch_out' = ch_out \o PrintLoop(ch_results, ch_nclips).out
    /\ ch_errors' = ch_errors + PrintLoop(ch_results, ch_nclips).errors
    /\ ch_pc' = "done"
    /\ UNCHANGED <<ch_link, ch_chunk_arg, ch_first, ch_nclips, ch_results, dlVars>>

\* lines 244-251: without the link flag download_clips is called with
\* args.chunk_size.unwrap_or(DefaultChunkSize)
ChDownload ==
    /\ ch_pc = "listed"
    /\ ~ch_link
    /\ ch_pc' = "downloading"
    /\ dl_nclips' = ch_nclips
    /\ dl_chunk_size' = IF ch_chunk_arg = <<>> THEN DefaultChunkSize ELSE ch_chunk_arg[1]
    /\ dl_pc' = "entry"
    /\ UNCHANGED <<ch_link, ch_chunk_arg, ch_first, ch_nclips, ch_results, ch_out, ch_errors,
                   dl_silent, dl_body, dl_lo, dl_bar, dl_errors, t_pc, t_attempts, t_recv, t_file,
                   dl_ids, t_meta>>

(***************************************************************************)
(* The specifications: one per component.                                  *)
(***************************************************************************)
NextSplit ==
    \/ SplitEnter /\ UNCHANGED <<gcVars, dlVars, rsVars, chVars>>
    \/ SplitIter /\ UNCHANGED <<gcVars, dlVars, rsVars, chVars>>
    \/ SplitReturn /\ UNCHANGED <<gcVars, dlVars, rsVars, chVars>>

InitSplit == SplitInit /\ GcIdle /\ DlIdle /\ RsIdle /\ ChIdle

SpecSplit == InitSplit /\ [][NextSplit]_vars

\* get_clips_chunked after line 61: split_date_range has returned the
\* sub-ranges of [0, n) by a duration of one tick
InitList ==
    /\ \E n \in 0..MaxParts :
        /\ sd_start = 0
        /\ sd_end = n
        /\ sd_current = n
        /\ sd_chunks = [i \in 1..n |-> <<convert_dt(i - 1), convert_dt(i)>>]
    /\ sd_kind = "ByDuration"
    /\ sd_arg = 1
    /\ sd_step = 1
    /\ sd_pc = "returned"
    /\ GcIdle
    /\ DlIdle
    /\ RsIdle
    /\ ChIdle

SpecList == InitList /\ [][NextList]_vars

\* download_clips is run alone: the lister's variables stay as they start
SdIdle ==
    /\ sd_start = 0
    /\ sd_end = 0
    /\ sd_kind = "ByDuration"
    /\ sd_arg = 1
    /\ sd_pc = "entry"
    /\ sd_step = 0
    /\ sd_current = 0
    /\ sd_chunks = <<>>

InitDl == DlInit /\ SdIdle /\ GcIdle /\ RsIdle /\ ChIdle

SpecDl == InitDl /\ [][NextDl]_vars

\* a partitioned run: get_clips_chunked has returned one clip for each of n
\* sub-ranges and download_clips is called with the merged list.  The remote
\* may answer the clip created at the instant two adjacent sub-ranges share
\* for both of them: dl_ids[i] is then the id of the record before it
InitRun ==
    /\ \E n \in 1..Min(MaxParts, MaxChunkSize + 1) :
        /\ sd_start = 0
        /\ sd_end = n
        /\ sd_current = n
        /\ sd_chunks = [i \in 1..n |-> <<convert_dt(i - 1), convert_dt(i)>>]
        /\ f_pc = [p \in Parts |-> IF p <= n THEN "returned" ELSE "idle"]
        /\ f_result = [p \in Parts |-> IF p <= n THEN OkResult(PageData(p, 1, 1)) ELSE Pending]
        /\ f_calls = [p \in Parts |-> IF p <= n THEN 1 ELSE 0]
        /\ f_sent = [p \in Parts |-> IF p <= n THEN 1 ELSE 0]
        /\ served = [p \in Parts |-> IF p <= n THEN <<[data |-> PageData(p, 1, 1), next |-> <<>>]>>
                                     ELSE <<>>]
        /\ gc_clips = MergeResults(f_result, n)
        /\ dl_nclips = n
        /\ dl_ids \in {ids \in [Clips -> Clips] :
                          \A i \in Clips :
                              \/ ids[i] = i
                              \/ 1 < i /\ i <= n /\ ids[i] = i - 1 /\ ids[i - 1] = i - 1}
    /\ sd_kind = "ByDuration"
    /\ sd_arg = 1
    /\ sd_step = 1
    /\ sd_pc = "returned"
    /\ gc_pc = "returned"
    /\ gc_errors = 0
    /\ f_req = [p \in Parts |-> <<>>]
    /\ f_cursor = [p \in Parts |-> <<>>]
    /\ f_clips = [p \in Parts |-> <<>>]
    /\ more_pages = 0
    /\ dl_chunk_size \in 0..MaxChunkSize
    /\ dl_silent = TRUE
    /\ dl_body = BodyLen
    /\ dl_pc = "entry"
    /\ dl_lo = 1
    /\ dl_bar = <<>>
    /\ dl_errors = 0
    /\ t_pc = [i \in Clips |-> "idle"]
    /\ t_attempts = [i \in Clips |-> 0]
    /\ t_recv = [i \in Clips |-> 0]
    /\ t_file = [i \in Clips |-> <<>>]
    /\ t_meta = [i \in Clips |-> <<>>]
    /\ RsIdle
    /\ ChIdle

SpecRun == InitRun /\ [][NextDl]_vars

\* the content of a file left at a destination by an earlier run
OldContent == <<0 - 1>>

\* download_clips over one or two clips whose bodies are dl_body chunks long
\* and whose destinations may already hold a file
InitFile ==
    /\ dl_nclips \in 1..2
    /\ dl_chunk_size \in 1..2
    /\ dl_silent = TRUE
    /\ dl_body \in 0..(BodyLen + 1)
    /\ dl_pc = "entry"
    /\ dl_lo = 1
    /\ dl_bar = <<>>
    /\ dl_errors = 0
    /\ t_pc = [i \in Clips |-> "idle"]
    /\ t_attempts = [i \in Clips |-> 0]
    /\ t_recv = [i \in Clips |-> 0]
    /\ t_file \in {f \in [Clips -> {<<>>, <<OldContent>>}] :
                      \A i \in Clips : i > dl_nclips => f[i] = <<>>}
    /\ dl_ids = [i \in Clips |-> i]
    /\ t_meta = [i \in Clips |-> <<>>]
    /\ SdIdle
    /\ GcIdle
    /\ RsIdle
    /\ ChIdle

SpecFile == InitFile /\ [][NextDl]_vars

NextChannel ==
    \/ ChList /\ UNCHANGED <<sdVars, gcVars, rsVars>>
    \/ ChJoinLookups /\ UNCHANGED <<sdVars, gcVars, rsVars>>
    \/ \E i \in Clips : ChLookup(i) /\ UNCHANGED <<sdVars, gcVars, rsVars>>
    \/ ChPrint /\ UNCHANGED <<sdVars, gcVars, rsVars>>
    \/ ChDownload /\ UNCHANGED <<sdVars, gcVars, rsVars>>
    \/ NextDl

InitChannel == ChInit /\ SdIdle /\ GcIdle /\ RsIdle

SpecChannel == InitChannel /\ [][NextChannel]_vars

NextResolve ==
    \/ RsLookup /\ UNCHANGED <<sdVars, gcVars, dlVars, chVars>>
    \/ RsSelect /\ UNCHANGED <<sdVars, gcVars, dlVars, chVars>>
    \/ RsDeliver /\ UNCHANGED <<sdVars, gcVars, dlVars, chVars>>

\* one clip is resolved alone: the other components stay as they start
InitResolve == RsInit /\ SdIdle /\ GcIdle /\ DlIdle /\ ChIdle

SpecResolve == InitResolve /\ [][NextResolve]_vars

(***************************************************************************)
(* The claims.                                                             *)
(***************************************************************************)
ChunkStart(i) == convert_ts(sd_chunks[i][1])
ChunkEnd(i) == convert_ts(sd_chunks[i][2])

\* C7: the sub-ranges split_date_range returns are ascending, start at start,
\* are contiguous and non-empty, and end exactly at end; the result is empty
\* exactly when the range is empty.
C7_PartitionCoverage ==
    sd_pc = "returned" =>
        LET n == Len(sd_chunks)
        IN  /\ (n = 0) <=> (sd_start >= sd_end)
            /\ n > 0 => ChunkStart(1) = sd_start /\ ChunkEnd(n) = sd_end
            /\ \A i \in 1..n : ChunkStart(i) < ChunkEnd(i)
            /\ \A i \in 1..(n - 1) : ChunkEnd(i) = ChunkStart(i + 1)

\* a returned partition of several chunks whose last chunk was clamped to end
C7_Witness ==
    /\ sd_pc = "returned"
    /\ Len(sd_chunks) >= 2
    /\ ChunkEnd(Len(sd_chunks)) - ChunkStart(Len(sd_chunks)) < sd_step

\* C8 (as claimed): with the fixed-count policy, start < end and k >= 1,
\* split_date_range never returns more than k sub-ranges.
C8_AtMostK ==
    (sd_pc = "returned" /\ sd_kind = "ByNumber" /\ sd_start < sd_end /\ sd_arg >= 1)
        => Len(sd_chunks) <= sd_arg

\* ---- download_clips ----
NClips == 1..dl_nclips

\* the batch (chunk number, from 0) task i belongs to
BatchOf(i) == (i - 1) \div dl_chunk_size

InFlightSet == {i \in Clips : InFlight(i)}

\* C1: no task of batch N+1 has begun (issued its metadata lookup) unless every
\* task of batch N, and of every earlier batch, has settled, by success or by
\* failure; with a chunk size of 0 no task ever begins.
C1_BatchBoundary ==
    /\ dl_chunk_size = 0 => \A i \in Clips : ~Started(i)
    /\ dl_chunk_size > 0 =>
         \A i \in NClips, j \in NClips :
             (BatchOf(i) < BatchOf(j) /\ Started(j)) => Settled(i)
    /\ \A i \in Clips \ NClips : ~Started(i)

\* chunk size 2, 5 tasks: task 3 is in flight after tasks 1 and 2 settled, one
\* of them by failing
C1_Witness ==
    /\ dl_chunk_size = 2
    /\ dl_nclips = 5
    /\ InFlight(3)
    /\ Settled(1) /\ Settled(2)
    /\ \E i \in {1, 2} : t_pc[i] \in FailedStates

\* C3: a failed task stops nothing else: it never panics download_clips, every
\* task in flight can still take its next step, a batch whose tasks have all
\* settled lets the loop move on, and when download_clips returns every task
\* of the list has been run once and has settled.
C3_FailureIsolation ==
    /\ NumFailed > 0 => dl_pc # "panicked"
    /\ \A i \in NClips : InFlight(i) => ENABLED TaskStep(i)
    /\ (dl_pc = "joining" /\ \A i \in CurChunk(dl_lo, dl_chunk_size, dl_nclips) : Settled(i))
           => ENABLED DlJoinDone
    /\ dl_pc = "loop" => ENABLED DlNextChunk
    /\ dl_pc = "returned" => \A i \in NClips : Settled(i) /\ t_attempts[i] = 1

\* download_clips has returned after a run in which a task of the first batch
\* failed, a sibling of that batch succeeded and a task of a later batch
\* succeeded
C3_Witness ==
    /\ dl_pc = "returned"
    /\ dl_chunk_size = 2
    /\ dl_nclips >= 4
    /\ t_pc[1] \in TransferFailedStates
    /\ t_pc[2] = "ok"
    /\ t_pc[4] = "ok"

\* the run of P5: 5 tasks, a progress bar, task 3 failed in download_file and
\* the other four completed
C4_Run ==
    /\ dl_pc = "returned"
    /\ dl_nclips = 5
    /\ ~dl_silent
    /\ t_pc[3] \in TransferFailedStates
    /\ \A i \in NClips \ {3} : t_pc[i] = "ok"

\* C4 (as claimed): after that run the progress count is 4 and one failure is
\* logged.
C4_ProgressCountsSuccesses == C4_Run => (dl_bar = <<4>> /\ dl_errors = 1)

\* C4 (amended): after that run the progress count is 5, the number of tasks
\* settled, failed or not, and one failure is logged.
C4_ProgressCountsSettled == C4_Run => (dl_bar = <<5>> /\ dl_errors = 1)

C4_Witness == C4_Run /\ dl_chunk_size = 2

\* C5: the number of tasks started and not yet settled never exceeds
\* chunk_size.
C5_BoundedConcurrency == Cardinality(InFlightSet) <= dl_chunk_size

\* chunk_size tasks are in flight at once, in a list longer than one chunk
C5_Witness ==
    /\ dl_chunk_size = 2
    /\ dl_nclips > 2
    /\ Cardinality(InFlightSet) = 2

\* C6 (as claimed): for every chunk size, 0 included, download_clips ends by
\* returning, with every clip attempted exactly once.
C6_ReturnsAllAttempted ==
    /\ dl_pc # "panicked"
    /\ dl_pc = "returned" => \A i \in NClips : t_attempts[i] = 1

\* ---- get_clips and get_clips_chunked ----
\* the call for sub-range p has ended because a page request failed
FetchFailed(p) ==
    /\ f_pc[p] = "returned"
    /\ served[p] = <<>> \/ served[p][Len(served[p])].next # <<>>

\* the call for sub-range p has received a page without a cursor
FetchCompleted(p) ==
    /\ served[p] # <<>>
    /\ served[p][Len(served[p])].next = <<>>

\* C2: the pages a get_clips call receives are pages 1, 2, ... of its
\* sub-range; while it runs its accumulator is the concatenation of the pages
\* received; when a page omits the cursor the call has returned Ok with
\* exactly the concatenation of all its pages, in order.
C2_Pagination ==
    \A p \in 1..NParts :
        /\ \A k \in 1..Len(served[p]) :
               served[p][k].data = PageData(p, k, Len(served[p][k].data))
        /\ f_pc[p] = "awaiting" => f_clips[p] = Flatten(served[p])
        /\ FetchCompleted(p) =>
               /\ f_pc[p] = "returned"
               /\ f_result[p] = [tag |-> "Ok", clips |-> Flatten(served[p])]
        /\ f_result[p].tag = "Ok" => FetchCompleted(p)

\* a call that returned Ok after several pages, two of them non-empty
C2_Witness ==
    \E p \in 1..NParts :
        /\ f_result[p].tag = "Ok"
        /\ Len(served[p]) >= 2
        /\ served[p][1].data # <<>>
        /\ served[p][2].data # <<>>

\* C9: a get_clips call one of whose page requests failed returns Err with no
\* record, has sent no request after the failed one, and none of the records
\* of its earlier pages is in the merged result.
C9_FailFast ==
    \A p \in 1..NParts :
        FetchFailed(p) =>
            /\ f_result[p] = [tag |-> "Err", clips |-> <<>>]
            /\ f_sent[p] = Len(served[p]) + 1
            /\ f_req[p] = <<>>
            /\ \A i \in 1..Len(gc_clips) : gc_clips[i][1] # p

\* get_clips_chunked has returned records although one sub-range failed after
\* a page with records
C9_Witness ==
    /\ gc_pc = "returned"
    /\ gc_clips # <<>>
    /\ \E p \in 1..NParts : FetchFailed(p) /\ Flatten(served[p]) # <<>>

\* the records of the sub-ranges 1..n whose call completed, in sub-range order
RECURSIVE CompletedRecords(_)
CompletedRecords(n) ==
    IF n = 0 THEN <<>>
    ELSE CompletedRecords(n - 1) \o (IF FetchCompleted(n) THEN Flatten(served[n]) ELSE <<>>)

\* C10: get_clips is called at most once per sub-range and never for anything
\* else, each request carries its own sub-range; a call still waiting for a
\* page when a sibling has failed can still receive it and has kept the
\* records it accumulated; when get_clips_chunked
\* returns, every sub-range has had its one call, every call has returned,
\* one error is logged per failed call, and the result is the concatenation,
\* in sub-range order, of all the pages of the calls that completed.
C10_PartitionIsolation ==
    /\ \A p \in Parts : f_calls[p] <= 1 /\ (p > NParts => f_calls[p] = 0)
    /\ \A p \in 1..NParts :
           f_req[p] # <<>> =>
               /\ f_req[p][1].started_at = sd_chunks[p][1]
               /\ f_req[p][1].ended_at = sd_chunks[p][2]
    /\ \A p \in 1..NParts :
           (f_pc[p] = "awaiting" /\ \E q \in 1..NParts : FetchFailed(q)) =>
               /\ ENABLED FetchPage(p)
               /\ f_clips[p] = Flatten(served[p])
    /\ gc_pc = "returned" =>
           /\ \A p \in 1..NParts : f_calls[p] = 1 /\ f_pc[p] = "returned"
           /\ gc_clips = CompletedRecords(NParts)
           /\ gc_errors = Cardinality({p \in 1..NParts : FetchFailed(p)})

\* three sub-ranges: the second failed after a page with records, the first
\* and the third completed with records
C10_Witness ==
    /\ gc_pc = "returned"
    /\ NParts = 3
    /\ FetchFailed(2) /\ Flatten(served[2]) # <<>>
    /\ FetchCompleted(1) /\ Flatten(served[1]) # <<>>
    /\ FetchCompleted(3) /\ Flatten(served[3]) # <<>>

\* ---- split_date_range, continued ----
\* C13 (as claimed): no operation of the core panics or exits the process;
\* here, split_date_range never panics.
C13_NoPanic == sd_pc # "panicked"

\* C14 (as claimed): called with start >= end, split_date_range ends by
\* returning the empty sequence, whatever the chunking policy.
C14_EmptyRange ==
    (sd_start >= sd_end /\ sd_pc \in {"returned", "panicked"})
        => (sd_pc = "returned" /\ sd_chunks = <<>>)

\* ---- download_clips, continued ----
\* C19: the progress bar, once created at 0, changes only when join_all has
\* resolved a batch: every task of the batch has settled, no task is in
\* flight, and the bar advances by the number of tasks of the batch; every
\* batch advances it; when download_clips returns it stands at the number of
\* clips.
C19_ProgressGranularity ==
    /\ [][dl_bar' # dl_bar =>
            \/ dl_pc = "entry" /\ dl_bar = <<>> /\ dl_bar' = <<0>>
            \/ /\ dl_pc = "joining"
               /\ dl_bar # <<>>
               /\ InFlightSet = {}
               /\ \A i \in CurChunk(dl_lo, dl_chunk_size, dl_nclips) : Settled(i)
               /\ dl_bar' = <<dl_bar[1] + Cardinality(CurChunk(dl_lo, dl_chunk_size, dl_nclips))>>]_vars
    /\ [][(dl_lo' # dl_lo /\ dl_bar # <<>>) =>
            dl_bar' = <<dl_bar[1] + Min(dl_chunk_size, dl_nclips - dl_lo + 1)>>]_vars
    /\ [](dl_pc = "returned" /\ ~dl_silent => dl_bar = <<dl_nclips>>)

\* 5 tasks in chunks of 2: the bar stands at 2 while task 3 is in flight
C19_Witness ==
    /\ dl_nclips = 5
    /\ dl_chunk_size = 2
    /\ dl_bar = <<2>>
    /\ InFlight(3)

\* ---- get_clips, continued ----
\* C20: a get_clips call has at most one request in flight, one more sent than
\* pages received; the request carries the call's own sub-range; the first
\* carries no cursor and each later one exactly the cursor of the page
\* received last by this call, which is a cursor of this sub-range.
C20_CursorThreading ==
    \A p \in 1..NParts :
        /\ Len(f_req[p]) <= 1
        /\ (f_pc[p] = "awaiting") <=> (f_req[p] # <<>>)
        /\ f_pc[p] = "awaiting" => f_sent[p] = Len(served[p]) + 1
        /\ f_pc[p] = "idle" => f_sent[p] = 0
        /\ f_sent[p] <= Len(served[p]) + 1
        /\ f_req[p] # <<>> =>
               LET req == f_req[p][1]
               IN  /\ req.started_at = sd_chunks[p][1]
                   /\ req.ended_at = sd_chunks[p][2]
                   /\ req.after = (IF served[p] = <<>> THEN <<>>
                                   ELSE served[p][Len(served[p])].next)
                   /\ req.after # <<>> => req.after[1][1] = p
                   /\ f_cursor[p] = req.after

\* two calls each wait for a page they asked for with a cursor
C20_Witness ==
    \E p \in 1..NParts, q \in 1..NParts :
        /\ p # q
        /\ f_req[p] # <<>> /\ f_req[p][1].after # <<>>
        /\ f_req[q] # <<>> /\ f_req[q][1].after # <<>>

(***************************************************************************)
(* Claims about the Quality Resolver                                       *)
(***************************************************************************)
Qualities(files) == [k \in 1..Len(files) |-> files[k].quality]

\* C11: the selected file is one of the candidates and no candidate has a
\* greater quality; delivery (print or download) happens only for a selected
\* file and concerns its URL alone; with no candidate nothing is selected, the
\* clip ends in failure with one error reported, nothing is printed and no
\* download is started.
C11_BestCandidate ==
    /\ rs_best # <<>> =>
           /\ \E k \in 1..Len(rs_files) : rs_files[k] = rs_best[1]
           /\ \A k \in 1..Len(rs_files) : rs_files[k].quality <= rs_best[1].quality
    /\ rs_pc \in {"deliver", "printed", "downloading"} => rs_best # <<>>
    /\ rs_out \in {<<>>} \cup {<<AsStr(b.url)>> : b \in {rs_best[k] : k \in 1..Len(rs_best)}}
    /\ rs_get \in {<<>>} \cup {<<b.url>> : b \in {rs_best[k] : k \in 1..Len(rs_best)}}
    /\ (rs_files = <<>> /\ rs_pc \notin {"idle", "lookup", "select"}) =>
           /\ rs_best = <<>>
           /\ rs_pc \in {"failed", "exited"}
           /\ rs_errors = 1
           /\ rs_out = <<>>
           /\ rs_get = <<>>

C11_Witness ==
    /\ rs_pc = "downloading"
    /\ Qualities(rs_files) = <<480, 1080, 720>>
    /\ rs_best[1].quality = 1080
    /\ rs_get = <<rs_files[2].url>>

\* enc is raw with every alphanumeric byte unchanged and every other byte
\* replaced by '%' and its two hexadecimal digits
RECURSIVE IsEncodingOf(_, _)
IsEncodingOf(enc, raw) ==
    IF raw = <<>> THEN enc = <<>>
    ELSE IF raw[1] \in Alnum
         THEN enc # <<>> /\ enc[1] = raw[1] /\ IsEncodingOf(Tail(enc), Tail(raw))
         ELSE /\ Len(enc) >= 3
              /\ SubSeq(enc, 1, 3) = <<"%">> \o HexOf(raw[1])
              /\ IsEncodingOf(SubSeq(enc, 4, Len(enc)), Tail(raw))

\* the pieces of a query between its '&' separators
RECURSIVE SplitAmp(_)
SplitAmp(q) ==
    IF \E k \in 1..Len(q) : q[k] = "&"
    THEN LET k == CHOOSE i \in 1..Len(q) : q[i] = "&" /\ \A j \in 1..(i - 1) : q[j] # "&"
         IN  <<SubSeq(q, 1, k - 1)>> \o SplitAmp(SubSeq(q, k + 1, Len(q)))
    ELSE <<q>>

\* the value of the first parameter of a query named key: <<>> = none
Param(q, key) ==
    LET segs == SplitAmp(q)
        name == key \o <<"=">>
        hits == {i \in 1..Len(segs) :
                    Len(segs[i]) >= Len(name) /\ SubSeq(segs[i], 1, Len(name)) = name}
    IN  IF hits = {} THEN <<>>
        ELSE LET i == CHOOSE h \in hits : \A g \in hits : h <= g
             IN  <<SubSeq(segs[i], Len(name) + 1, Len(segs[i]))>>

SigKey == <<"s", "i", "g">>

TokenKey == <<"t", "o", "k", "e", "n">>

\* the URL text ends with "&token=" followed by the encoded token value
EndsWithEncodedToken(url, value) ==
    LET rest == AsStr(url).rest
        lead == <<"&">> \o TokenKey \o <<"=">>
    IN  \E k \in 1..Len(rest) :
            /\ k + Len(lead) - 1 <= Len(rest)
            /\ SubSeq(rest, k, k + Len(lead) - 1) = lead
            /\ IsEncodingOf(SubSeq(rest, k + Len(lead), Len(rest)), value)

\* a signature that a URL query carries as it is: no space, which URL parsing
\* escapes, and no '#' or '&', which end the query or the parameter
QuerySafe(sig) == \A k \in 1..Len(sig) : sig[k] \notin {" ", "#", "&"}

BadRendition(r) ==
    \/ r.quality = <<>>
    \/ \E k \in 1..Len(r.quality) : r.quality[k] \notin Digits
    \/ r.source_url \notin AbsoluteUrls

\* the lookup of task i has answered with a response that has such a rendition
HasBadRendition(i) ==
    /\ t_meta[i] # <<>>
    /\ SampleLookups[t_meta[i][1]] # <<>>
    /\ \E k \in 1..Len(SampleLookups[t_meta[i][1]][1].video_qualities) :
           BadRendition(SampleLookups[t_meta[i][1]][1].video_qualities[k])

\* C16: a clip whose metadata has a rendition with a label that is not an
\* unsigned integer, or with a URL that cannot be built, ends in ResolveFailed
\* after one attempt and without a destination file; download_clips does not
\* panic, every other task in flight can still take its step, and when
\* download_clips returns every other clip has been looked up once and has
\* settled, with its whole file written when nothing else failed.
C16_ResolutionPerClip ==
    \A i \in NClips :
        HasBadRendition(i) =>
            /\ t_pc[i] = "ResolveFailed"
            /\ t_attempts[i] = 1
            /\ t_file[dl_ids[i]] = <<>>
            /\ dl_pc # "panicked"
            /\ \A j \in NClips \ {i} : InFlight(j) => ENABLED TaskStep(j)
            /\ dl_pc = "returned" =>
                   \A j \in NClips \ {i} :
                       /\ Settled(j)
                       /\ t_meta[j] # <<>>
                       /\ t_attempts[j] = 1
                       /\ NumFailed = 1 =>
                              (t_pc[j] = "ok" /\ t_file[dl_ids[j]] = <<[k \in 1..dl_body |-> k]>>)

C16_Witness ==
    /\ dl_pc = "returned"
    /\ dl_chunk_size = 2
    /\ dl_nclips = 3
    /\ HasBadRendition(1)
    /\ SampleLookups[t_meta[1][1]][1].video_qualities[2].quality = <<"7", "2", "p">>
    /\ t_pc = [i \in Clips |-> IF i = 1 THEN "ResolveFailed" ELSE IF i <= 3 THEN "ok" ELSE "idle"]

\* task i holds, or is about to open, its destination file
Writing(i) == t_pc[i] \in {"creating", "streaming"}

\* C17 (as claimed): in a partitioned run no two tasks that are in flight at
\* the same time write to the same destination path.
C17_NoSharedDestination ==
    \A i \in NClips, j \in NClips :
        (i # j /\ Writing(i) /\ Writing(j)) => dl_ids[i] # dl_ids[j]


(***************************************************************************)
(* Claims about the channel command                                        *)
(***************************************************************************)
\* the files of clip i's answered lookup, <<>> when it failed
ChFiles(i) == get_video_source_files(ch_results[i][1]).files

\* the clips whose resolution succeeded and yielded at least one candidate
ChResolved == {i \in 1..ch_nclips : ch_results[i] # <<>> /\ ChFiles(i) # <<>>}

\* C15: with the link flag, nothing is printed before the lookups are joined;
\* then exactly one line is printed for each clip that resolved to at least
\* one candidate, in clip order, and the line is the URL of one of that clip's
\* best candidates; download_clips is never called, no task issues a GET and
\* no destination file exists.
C15_LinkOnly ==
    ch_link =>
        /\ dl_pc = "uncalled"
        /\ \A i \in Clips : t_pc[i] = "idle" /\ t_attempts[i] = 0 /\ t_file[i] = <<>>
        /\ ch_pc # "done" => ch_out = <<>>
        /\ ch_pc = "done" =>
               /\ Len(ch_out) = Cardinality(ChResolved)
               /\ ch_errors = ch_nclips - Cardinality(ChResolved)
               /\ \A m \in 1..Len(ch_out) :
                      \E i \in ChResolved :
                          /\ Cardinality({j \in ChResolved : j <= i}) = m
                          /\ \E k \in 1..Len(ChFiles(i)) :
                                 /\ ch_out[m] = AsStr(ChFiles(i)[k].url)
                                 /\ \A l \in 1..Len(ChFiles(i)) :
                                        ChFiles(i)[l].quality <= ChFiles(i)[k].quality

C15_Witness ==
    /\ ch_link
    /\ ch_pc = "done"
    /\ ch_nclips = 3
    /\ ChResolved = {2, 3}
    /\ ch_results[1] # << <<>> >>
    /\ ch_errors = 1
    /\ Len(ch_out) = 2
    /\ ch_out[1].base = UrlAt(2)
    /\ ch_out[2].base = UrlAt(3)

\* C18 (as claimed): the page size sent to the listing endpoint is the value
\* of --chunk-size, 20 when the option is absent, and never more than 100.
C18_ChunkSizeIsPageSize ==
    \A k \in 1..Len(ch_first) :
        /\ ch_first[k] = (IF ch_chunk_arg = <<>> THEN 20 ELSE ch_chunk_arg[1])
        /\ ch_first[k] <= 100


(***************************************************************************)
(* Claims about the frame rate, the streamed file, termination and early   *)
(* failures                                                                *)
(***************************************************************************)
\* the position the maximum-quality rule gives on a non-empty list: no
\* candidate has a greater quality and none after it has an equal one
QualityRulePos(files) ==
    CHOOSE p \in 1..Len(files) :
        /\ \A k \in 1..Len(files) : files[k].quality <= files[p].quality
        /\ \A k \in (p + 1)..Len(files) : files[k].quality < files[p].quality

\* files with the frame rate of its k-th candidate replaced by frs[k]
WithFrameRates(files, frs) ==
    [k \in 1..Len(files) |-> [files[k] EXCEPT !.frame_rate = frs[k]]]

\* C21: whichever path selects (the clip command or download_clip), the
\* selected candidate is the one at the position the maximum-quality rule
\* gives, which depends on the qualities alone; and for every other assignment
\* of frame rates to the same qualities and URLs the selection falls on the
\* same position.
C21_FrameRateIrrelevant ==
    rs_best # <<>> =>
        LET p == QualityRulePos(rs_files)
        IN  /\ rs_best[1] = rs_files[p]
            /\ \A frs \in [1..Len(rs_files) -> {RoundU32(f) : f \in FrameRates}] :
                   Best(WithFrameRates(rs_files, frs)) = <<WithFrameRates(rs_files, frs)[p]>>

\* two candidates of equal quality, the first with the higher frame rate: the
\* clip command has printed the second
C21_Witness ==
    /\ rs_caller = "clip_link"
    /\ rs_pc = "printed"
    /\ Qualities(rs_files) = <<720, 720>>
    /\ rs_files[1].frame_rate > rs_files[2].frame_rate
    /\ rs_best = <<rs_files[2]>>
    /\ rs_out = <<AsStr(rs_files[2].url)>>


\* the first n chunks of a response body, in arrival order
BodyPrefix(n) == [k \in 1..n |-> k]

\* task i has created its destination file
Created(i) == t_pc[i] \in {"streaming", "ok", "WriteFailed", "StreamFailed"}

\* the file of task i: every chunk written, in arrival order, and nothing
\* else; a failed write leaves the chunk that had arrived out
PrefixWritten(i) ==
    /\ t_file[dl_ids[i]] # <<>>
    /\ t_recv[i] <= dl_body
    /\ t_file[dl_ids[i]][1] =
           BodyPrefix(IF t_pc[i] = "WriteFailed" THEN t_recv[i] - 1 ELSE t_recv[i])

\* once a task has ended, its file is not written again
NoWriteAfterEnd ==
    [][\A i \in Clips : Settled(i) => t_file'[dl_ids[i]] = t_file[dl_ids[i]]]_vars

\* C22 (as claimed): the file of a task is at every point a prefix of the
\* body's chunks in arrival order, nothing is written after a write error or a
\* stream error, and once the task has ended the file is the whole body only
\* if the stream ended without error.
C22_StreamingPrefix ==
    /\ [](\A i \in NClips : Created(i) => PrefixWritten(i))
    /\ NoWriteAfterEnd
    /\ [](\A i \in NClips :
              (Settled(i) /\ Created(i) /\ t_file[dl_ids[i]] = <<BodyPrefix(dl_body)>>)
                  => t_pc[i] = "ok")

\* C22 (amended): the file of a task is at every point a prefix of the body's
\* chunks in arrival order, nothing is written after a write error or a
\* stream error, and once the task has ended the file is the whole body only
\* if no write failed and every chunk of the body had arrived, which is the
\* case when the stream ended without error and also when the stream error
\* followed the last chunk.
C22_StreamingPrefixOfArrived ==
    /\ [](\A i \in NClips : Created(i) => PrefixWritten(i))
    /\ NoWriteAfterEnd
    /\ [](\A i \in NClips :
              (Settled(i) /\ Created(i) /\ t_file[dl_ids[i]] = <<BodyPrefix(dl_body)>>)
                  => \/ t_pc[i] = "ok"
                     \/ t_pc[i] = "StreamFailed" /\ t_recv[i] = dl_body)

\* the first of two chunks is in the file and the second is awaited
C22_Witness ==
    /\ dl_body = 2
    /\ t_pc[1] = "streaming"
    /\ t_recv[1] = 1
    /\ t_file[1] = <<BodyPrefix(1)>>

\* C23 (as claimed): split_date_range terminates for every input: every
\* iteration of the partition loop that stays in the loop moves current, so
\* that no iteration ends in the state it began in (the same current, step
\* and end), from which the same iteration would repeat for ever.
C23_Terminates ==
    [][(SplitIter /\ sd_pc' = "loop") => sd_current' # sd_current]_vars

\* the states of a task before its GET has returned a response, and the
\* failures that end it there
EarlyStates == {"idle", "resolving", "sending", "ResolveFailed", "NoSourceFound", "SendFailed"}

\* a destination as it was before the run: absent, or the file already there
Untouched(p) == t_file[p] \in {<<>>, <<OldContent>>}

\* C24: while a task has not had a response to its GET, and when it ends by a
\* failed metadata resolution, by an empty candidate list or by a failed send,
\* its destination is as it was before the run, absent or with the content
\* already there; a destination changes only in a step of a task that has
\* had the response to its GET (it is creating the file or streaming into it).
C24_NoFileOnEarlyFailure ==
    /\ [](\A i \in NClips : t_pc[i] \in EarlyStates => Untouched(dl_ids[i]))
    /\ [][\A p \in Clips :
              t_file'[p] # t_file[p]
                  => \E i \in NClips : dl_ids[i] = p /\ t_pc[i] \in {"creating", "streaming"}]_vars

\* a task ended by a failed send with the file that was at its path still
\* there, while the task beside it has replaced the file at its own path
C24_Witness ==
    /\ t_pc[1] = "SendFailed"
    /\ t_file[1] = <<OldContent>>
    /\ t_pc[2] = "ok"
    /\ t_file[2] = <<BodyPrefix(dl_body)>>

====
